---- MODULE Spec2Model ----
(***************************************************************************)
(* Model of frontend/src/pages/DbView.jsx: the SupabaseTableViewer         *)
(* component (state hooks, the fetchData callback, the polling effect and  *)
(* its cleanup, the render selection) and the App shell that mounts it.    *)
(*                                                                         *)
(* Time is virtual and advances in steps of TimeStep milliseconds.  A      *)
(* timer callback runs in the step in which the clock reaches its due      *)
(* time.  A fetch is split in two steps, as the await in fetchData splits  *)
(* it: the part before the await runs where fetchData is called, the part  *)
(* after it (try tail / catch / finally) runs in Complete.                 *)
(***************************************************************************)
EXTENDS Integers, Sequences, FiniteSets, TLC

\* ---------------------------------------------------------------- bounds
MaxSteps == 5
MaxParamChanges == 1

\* ------------------------------------------------------------- constants
refreshInterval == 5000
TimeStep == refreshInterval \div 2
MaxTime == MaxSteps * TimeStep

Sentinel == "YOUR_SUPABASE_URL"
myTableName == "tickets"
DefaultMsg == "An unknown error occurred during refresh."
Undefined == "<undefined>"

\* ------------------------------------------------------ input domains
Urls == {Sentinel, "https://project.supabase.co"}
Tables == {myTableName, "users"}
Intervals == {0 - TimeStep, 0, refreshInterval}

Row(u, t) == [uuid |-> u, tbl |-> t]

\* what `records` can be in a response for table t: null, [], one row
Payloads(t) ==
  { [isNull |-> TRUE, rows |-> <<>>],
    [isNull |-> FALSE, rows |-> <<>>],
    [isNull |-> FALSE, rows |-> <<Row("a", t)>>] }

NoErr == [present |-> FALSE, message |-> Undefined]
ErrObjs == { [present |-> TRUE, message |-> m] : m \in {"boom", Undefined} }

\* the awaited query resolves to {data, error}: without an error, or with an
\* error next to no data or to (partial) rows; or it rejects with an error
Responses(t) ==
  [kind : {"resolve"}, records : Payloads(t), fetchError : {NoErr}]
    \cup
  [kind : {"resolve"}, records : {p \in Payloads(t) : p.isNull \/ p.rows /= <<>>},
   fetchError : ErrObjs]
    \cup
  [kind : {"reject"}, records : {[isNull |-> TRUE, rows |-> <<>>]}, fetchError : ErrObjs]

VARIABLES
  supabaseUrl,    \* module-scope configuration value
  phase,          \* "init" | "mounted" | "unmounted" (the viewer's lifecycle)
  tableName,      \* prop
  pollInterval,   \* prop
  data,           \* useState([])
  loading,        \* useState(true)
  isRefreshing,   \* useState(false)
  error,          \* useState(null): Undefined stands for null
  lastUpdated,    \* useState(null): <<>> is null, <<t>> is a Date at time t
  timers,         \* active intervals: [id, period, nextFire, table]
  cleanup,        \* what the last effect run returned: <<>> or <<intervalId>>
  nextTimerId,    \* next interval id handed out by setInterval
  inflight,       \* fetches awaiting their response: [id, table]
  now,            \* virtual clock, ms
  \* ---- history (observers only; no action's guard or update reads them)
  fetchCount,     \* fetches issued so far
  completedCount, \* fetches completed so far
  lastOutcome,    \* "none" | "ok" | "fail": outcome of the latest completion
  lastOkRecords,  \* <<>> or <<payload>>: payload of the latest successful fetch
  everFailed,     \* some completion has failed
  paramChanges    \* number of prop changes so far

props == <<tableName, pollInterval>>
hooks == <<data, loading, isRefreshing, error, lastUpdated>>
effect == <<timers, cleanup, nextTimerId>>
hist == <<fetchCount, completedCount, lastOutcome, lastOkRecords, everFailed,
          paramChanges>>
vars == <<supabaseUrl, phase, props, hooks, effect, inflight, now, hist>>

\* ------------------------------------------------------ JS helpers
\* truthiness of a string-or-null value
Truthy(x) == x /= Undefined /\ x /= ""

\* `records || []`
OrEmpty(records) == IF records.isNull THEN <<>> ELSE records.rows

\* `err.message || 'An unknown error occurred during refresh.'`
ErrText_nodefault(err) == err.message
ErrText(err) == IF Truthy(err.message) THEN err.message ELSE DefaultMsg

\* the try block runs to its end: the await resolved and fetchError is falsy
Succeeded(r) == r.kind = "resolve" /\ ~r.fetchError.present

\* ------------------------------------------------ fetchData, before await
\* only setIsRefreshing(true) runs before the await: loading is left as it is
LoadingOnStart_reset(l) == TRUE
LoadingOnStart(l) == l

\* ------------------------------------------------ fetchData, after await
DataAfter_keep(r, d) == d
DataAfter_nonull(r, d) == IF Succeeded(r) /\ ~r.records.isNull THEN r.records.rows ELSE d
DataAfter_early(r, d) == IF r.kind = "resolve" THEN OrEmpty(r.records) ELSE d
DataAfter(r, d) == IF Succeeded(r) THEN OrEmpty(r.records) ELSE d

LastUpdatedAfter_never(r, lu, t) == lu
LastUpdatedAfter_finally(r, lu, t) == <<t>>
LastUpdatedAfter(r, lu, t) == IF Succeeded(r) THEN <<t>> ELSE lu

ErrorAfter_noclear(r, e) == IF Succeeded(r) THEN e ELSE ErrText(r.fetchError)
ErrorAfter(r, e) == IF Succeeded(r) THEN Undefined ELSE ErrText(r.fetchError)

LoadingAfter_tryonly(r, l) == IF Succeeded(r) THEN FALSE ELSE l
LoadingAfter(r, l) == FALSE

\* ------------------------------------------------ the polling effect
ShouldPoll_truthy(p) == p /= 0
ShouldPoll(p) == p /= 0 /\ p > 0

\* setInterval(fetchData, pollInterval) called at time t
NewTimer_immediate(id, p, tbl, t) == [id |-> id, period |-> p, nextFire |-> t, table |-> tbl]
NewTimer(id, p, tbl, t) == [id |-> id, period |-> p, nextFire |-> t + p, table |-> tbl]

\* what the effect returns: the cleanup closing over intervalId, or nothing
EffectReturn_none(p, id) == <<>>
EffectReturn(p, id) == IF ShouldPoll(p) THEN <<id>> ELSE <<>>

\* running the cleanup returned by the previous effect run
RunCleanup_noop(ts, c) == ts
RunCleanup(ts, c) == IF c = <<>> THEN ts ELSE {tm \in ts : tm.id /= c[1]}

\* an interval stays armed after it fires
Rearm_once(tm) == {}
Rearm(tm) == {[tm EXCEPT !.nextFire = @ + tm.period]}

\* ------------------------------------------------ render selection
View_erroralways ==
  IF loading THEN "loading"
  ELSE IF Truthy(error) THEN "error"
  ELSE IF Len(data) = 0 THEN "empty"
  ELSE "list"
View ==
  IF loading THEN "loading"
  ELSE IF Truthy(error) /\ Len(data) = 0 THEN "error"
  ELSE IF Len(data) = 0 THEN "empty"
  ELSE "list"

\* the warning banner inside the record list
Banner == Truthy(error)

\* what App renders in <main>
RootView_nocheck == "viewer"
RootView == IF supabaseUrl = Sentinel THEN "config-needed" ELSE "viewer"

\* ------------------------------------------------------------ Init
Init ==
  /\ supabaseUrl \in Urls
  /\ phase = "init"
  /\ tableName = myTableName
  /\ pollInterval = refreshInterval
  /\ data = <<>>
  /\ loading = TRUE
  /\ isRefreshing = FALSE
  /\ error = Undefined
  /\ lastUpdated = <<>>
  /\ timers = {}
  /\ cleanup = <<>>
  /\ nextTimerId = 1
  /\ inflight = {}
  /\ now = 0
  /\ fetchCount = 0
  /\ completedCount = 0
  /\ lastOutcome = "none"
  /\ lastOkRecords = <<>>
  /\ everFailed = FALSE
  /\ paramChanges = 0

\* ------------------------------------------------------------ steps
\* fetchData() up to the await, for the table its closure captured
FetchData(tbl) ==
  /\ isRefreshing' = TRUE
  /\ inflight' = inflight \cup {[id |-> fetchCount + 1, table |-> tbl]}
  /\ fetchCount' = fetchCount + 1
  /\ loading' = LoadingOnStart(loading)
  /\ UNCHANGED <<data, error, lastUpdated>>

\* the effect body run for props (t, p) over the timers left by the cleanup
RunEffect(t, p, ts) ==
  /\ FetchData(t)
  /\ timers' = IF ShouldPoll(p) THEN ts \cup {NewTimer(nextTimerId, p, t, now)} ELSE ts
  /\ nextTimerId' = IF ShouldPoll(p) THEN nextTimerId + 1 ELSE nextTimerId
  /\ cleanup' = EffectReturn(p, nextTimerId)

\* App's first render mounts the viewer unless the URL is the placeholder;
\* the interval prop ranges over Intervals, which holds App's refreshInterval
Mount ==
  /\ phase = "init"
  /\ RootView = "viewer"
  /\ now = 0
  /\ \E p \in Intervals :
       /\ tableName' = myTableName
       /\ pollInterval' = p
       /\ RunEffect(myTableName, p, timers)
  /\ phase' = "mounted"
  /\ UNCHANGED <<supabaseUrl, now, completedCount, lastOutcome, lastOkRecords,
                 everFailed, paramChanges>>

\* the parent re-renders the viewer with a different tableName or a different
\* pollInterval (one prop per re-render): the previous effect's cleanup runs,
\* then the effect runs again
ParamChange ==
  /\ phase = "mounted"
  /\ paramChanges < MaxParamChanges
  /\ \E t \in Tables, p \in Intervals :
       /\ (t /= tableName) /= (p /= pollInterval)
       /\ tableName' = t
       /\ pollInterval' = p
       /\ RunEffect(t, p, RunCleanup(timers, cleanup))
  /\ paramChanges' = paramChanges + 1
  /\ UNCHANGED <<supabaseUrl, phase, now, completedCount, lastOutcome,
                 lastOkRecords, everFailed>>

\* the viewer is removed: the last effect's cleanup runs
Unmount ==
  /\ phase = "mounted"
  /\ phase' = "unmounted"
  /\ timers' = RunCleanup(timers, cleanup)
  /\ cleanup' = <<>>
  /\ UNCHANGED <<supabaseUrl, props, hooks, nextTimerId, inflight, now,
                 fetchCount, completedCount, lastOutcome, lastOkRecords,
                 everFailed, paramChanges>>

\* the clock reaches an interval's due time and its callback runs
Tick ==
  /\ \E tm \in timers :
       /\ tm.nextFire <= now + TimeStep
       /\ now' = IF tm.nextFire > now THEN tm.nextFire ELSE now
       /\ now' <= MaxTime
       /\ FetchData(tm.table)
       /\ timers' = (timers \ {tm}) \cup Rearm(tm)
  /\ UNCHANGED <<supabaseUrl, phase, props, cleanup, nextTimerId,
                 completedCount, lastOutcome, lastOkRecords, everFailed,
                 paramChanges>>

\* the clock advances by one step in which no interval is due
Advance ==
  /\ now + TimeStep <= MaxTime
  /\ \A tm \in timers : tm.nextFire > now + TimeStep
  /\ now' = now + TimeStep
  /\ UNCHANGED <<supabaseUrl, phase, props, hooks, effect, inflight,
                 fetchCount, completedCount, lastOutcome, lastOkRecords,
                 everFailed, paramChanges>>

\* the response of an in-flight fetch arrives: fetchData from the await on
Complete ==
  /\ \E f \in inflight : \E r \in Responses(f.table) :
       /\ inflight' = inflight \ {f}
       /\ data' = DataAfter(r, data)
       /\ lastUpdated' = LastUpdatedAfter(r, lastUpdated, now)
       /\ error' = ErrorAfter(r, error)
       /\ loading' = LoadingAfter(r, loading)
       /\ isRefreshing' = FALSE
       /\ lastOutcome' = IF Succeeded(r) THEN "ok" ELSE "fail"
       /\ lastOkRecords' = IF Succeeded(r) THEN <<r.records>> ELSE lastOkRecords
       /\ everFailed' = (everFailed \/ ~Succeeded(r))
  /\ completedCount' = completedCount + 1
  /\ UNCHANGED <<supabaseUrl, phase, props, effect, now, fetchCount, paramChanges>>

Next ==
  \/ Mount
  \/ ParamChange
  \/ Unmount
  \/ Tick
  \/ Advance
  \/ Complete

Spec == Init /\ [][Next]_vars

\* the event loop: the clock keeps advancing and a due interval callback runs
LiveSpec == Spec /\ WF_vars(Tick) /\ WF_vars(Advance)

\* =================================================================
\* Properties
\* =================================================================

\* C1: in every reachable state (so after every fetch completion, whatever
\* the interleaving of mount, ticks and overlapping completions) data is
\* the payload of the most recently completed successful fetch, the empty
\* sequence when that payload was null or empty or no fetch has succeeded;
\* the records carried by a failed response never reach data.
C1_SnapshotIsLastSuccess ==
  data = IF lastOkRecords = <<>> THEN <<>>
         ELSE IF lastOkRecords[1].isNull THEN <<>>
         ELSE lastOkRecords[1].rows

\* a failure completed last, after a success whose rows are still shown
C1_Witness ==
  /\ completedCount >= 2
  /\ lastOutcome = "fail"
  /\ data /= <<>>

\* C2: once a fetch has completed, error is non-null exactly when the most
\* recently completed fetch failed, also while later fetches are in flight.
C2_ErrorIffLastFailed ==
  completedCount > 0 => ((error /= Undefined) <=> (lastOutcome = "fail"))

\* the last completion failed and a fetch is in flight: error is still set
C2_Witness ==
  /\ lastOutcome = "fail"
  /\ error /= Undefined
  /\ inflight /= {}
  /\ isRefreshing

\* C3: error goes from set to null only in the completion of a successful
\* fetch; no mount, tick, parameter change, unmount, clock step or failed
\* completion clears it.
C3_ErrorClearedOnlyBySuccess ==
  [][(error /= Undefined /\ error' = Undefined)
       => (completedCount' = completedCount + 1 /\ lastOutcome' = "ok")]_vars

\* a failure was recorded and a later successful completion cleared it
C3_Witness ==
  /\ everFailed
  /\ lastOutcome = "ok"
  /\ error = Undefined

\* C4: while mounted, the full-page loader is rendered (loading = TRUE)
\* exactly when no fetch has completed yet, by success or by failure.
C4_LoadingIffNothingCompleted ==
  phase = "mounted" => (loading <=> (completedCount = 0))

\* the only completion so far is a failure and the loader is gone
C4_Witness ==
  /\ phase = "mounted"
  /\ completedCount = 1
  /\ lastOutcome = "fail"
  /\ ~loading

\* C5: a response that arrives after the unmount is ignored: no step taken
\* after the unmount changes data, error, lastUpdated, loading or
\* isRefreshing.
C5_LateResponseIgnored ==
  [][phase = "unmounted" => UNCHANGED hooks]_vars

\* C6: no fetch is issued at any point after the unmount.
C6_NoFetchAfterUnmount ==
  [][phase = "unmounted" => fetchCount' = fetchCount]_vars

\* unmounted before the first tick of a positive interval; two periods
\* later the only fetch ever issued is still the immediate one
C6_Witness ==
  /\ phase = "unmounted"
  /\ pollInterval > 0
  /\ paramChanges = 0
  /\ now >= 2 * pollInterval
  /\ fetchCount = 1

\* C7: mounted with pollInterval zero or negative and never given other
\* parameters, the viewer arms no timer and issues exactly one fetch.
C7_OneShotWhenNonPositive ==
  (phase /= "init" /\ pollInterval <= 0 /\ paramChanges = 0)
    => (timers = {} /\ fetchCount = 1)

\* a negative interval, still mounted after two default periods
C7_Witness ==
  /\ phase = "mounted"
  /\ pollInterval < 0
  /\ paramChanges = 0
  /\ now >= 2 * refreshInterval
  /\ fetchCount = 1

\* C8: mounted with fixed parameters and pollInterval = P > 0, the number
\* of fetches issued by virtual time t is 1 + floor(t / P), whether or not
\* earlier fetches have completed.
C8_FetchCountByTime ==
  (phase = "mounted" /\ paramChanges = 0 /\ pollInterval > 0)
    => fetchCount = 1 + (now \div pollInterval)

\* 12.5 s after mount with the 5000 ms interval: three fetches, none completed
C8_Witness ==
  /\ phase = "mounted"
  /\ paramChanges = 0
  /\ pollInterval = refreshInterval
  /\ now = 5 * TimeStep
  /\ fetchCount = 3
  /\ completedCount = 0

\* C9: there is at most one active timer, exactly one while mounted with
\* pollInterval > 0 and none after unmount; the active timer is the one
\* armed for the current tableName and pollInterval, so a parameter change
\* leaves no timer of the old parameters behind.
C9_OneTimer ==
  /\ Cardinality(timers) <= 1
  /\ (phase = "mounted" /\ pollInterval > 0) => Cardinality(timers) = 1
  /\ phase = "unmounted" => timers = {}
  /\ \A tm \in timers : tm.period = pollInterval /\ tm.table = tableName

\* a second timer was armed by a parameter change and it is the only one
C9_Witness ==
  /\ phase = "mounted"
  /\ paramChanges = 1
  /\ nextTimerId = 3
  /\ Cardinality(timers) = 1

\* C10: while mounted exactly one view is rendered, selected by whether a
\* fetch has completed, whether error is set and whether data is empty:
\* loader iff nothing completed; else error panel iff error set and data
\* empty; else empty-state message iff data empty; else the record list,
\* with the warning banner iff error is set.  A failed refresh over
\* non-empty data shows the list with the banner, never the error panel.
C10_ViewSelection ==
  phase = "mounted" =>
    /\ (View = "loading") <=> (completedCount = 0)
    /\ (View = "error") <=> (completedCount > 0 /\ error /= Undefined /\ data = <<>>)
    /\ (View = "empty") <=> (completedCount > 0 /\ error = Undefined /\ data = <<>>)
    /\ (View = "list") <=> (completedCount > 0 /\ data /= <<>>)
    /\ (View = "list") => (Banner <=> (error /= Undefined))
    /\ (lastOutcome = "fail" /\ data /= <<>>) => (View = "list" /\ Banner)

\* a refresh failed over rows of an earlier success: list plus banner
C10_Witness ==
  /\ phase = "mounted"
  /\ lastOutcome = "fail"
  /\ data /= <<>>
  /\ View = "list"
  /\ Banner

\* C11: while mounted, isRefreshing is true exactly when at least one
\* issued fetch has not resolved yet, also when fetches overlap.
C11_RefreshingIffInFlight ==
  phase = "mounted" => (isRefreshing <=> (inflight /= {}))

\* C14: with the placeholder URL the root renders the configuration panel,
\* the viewer never leaves its unmounted initial phase, no timer is armed
\* and no fetch is ever issued.
C14_SentinelNeverMounts ==
  supabaseUrl = Sentinel =>
    /\ RootView = "config-needed"
    /\ phase = "init"
    /\ timers = {}
    /\ inflight = {}
    /\ fetchCount = 0

\* the placeholder URL, two default periods after start
C14_Witness ==
  /\ supabaseUrl = Sentinel
  /\ now >= 2 * refreshInterval
  /\ fetchCount = 0

\* C15: the completion of a failed fetch leaves data and lastUpdated (and
\* everything outside the hooks) unchanged; it sets error to the failure's
\* message or to the default text, and loading and isRefreshing to false.
C15_FailureFrame ==
  [][(completedCount' = completedCount + 1 /\ lastOutcome' = "fail")
       => /\ data' = data
          /\ lastUpdated' = lastUpdated
          /\ error' \in {e.message : e \in {x \in ErrObjs : Truthy(x.message)}}
                          \cup {DefaultMsg}
          /\ loading' = FALSE
          /\ isRefreshing' = FALSE
          /\ UNCHANGED <<supabaseUrl, phase, props, effect, now, fetchCount>>]_vars

\* a message-less failure completed after an earlier success: rows and the
\* older timestamp are kept, error holds the default text
C15_Witness ==
  /\ lastOutcome = "fail"
  /\ error = DefaultMsg
  /\ data /= <<>>
  /\ lastUpdated /= <<>>
  /\ lastUpdated[1] < now
  /\ ~loading
  /\ ~isRefreshing

\* C19: lastUpdated is non-null exactly when some fetch has completed
\* successfully; hence whenever data is non-empty, loading is false and
\* lastUpdated is non-null.
C19_LastUpdatedIffSucceeded ==
  /\ (lastUpdated /= <<>>) <=> (lastOkRecords /= <<>>)
  /\ data /= <<>> => (~loading /\ lastUpdated /= <<>>)

\* only failures have completed: still no timestamp
C19_Witness ==
  /\ everFailed
  /\ completedCount >= 2
  /\ lastOkRecords = <<>>
  /\ lastUpdated = <<>>

\* C16: every start (the mount, and each change of tableName or
\* pollInterval while mounted) issues exactly one fetch, for the new
\* tableName, in the same step and before the clock moves; the only timer
\* armed afterwards has the new pollInterval as its period and first fires
\* one period later, and none is armed when the new interval is not positive.
C16_StartFetchesOnce ==
  [][((phase = "init" /\ phase' = "mounted") \/ (phase = "mounted" /\ props' /= props))
       => /\ fetchCount' = fetchCount + 1
          /\ inflight' = inflight \cup {[id |-> fetchCount + 1, table |-> tableName']}
          /\ now' = now
          /\ Cardinality(timers') = (IF pollInterval' > 0 THEN 1 ELSE 0)
          /\ \A tm \in timers' : /\ tm.period = pollInterval'
                                 /\ tm.table = tableName'
                                 /\ tm.nextFire = now + pollInterval']_vars

\* after a parameter change to a positive interval: the second fetch is in
\* flight for the current table and no tick of the new timer has fired yet
C16_Witness ==
  /\ phase = "mounted"
  /\ paramChanges = 1
  /\ pollInterval > 0
  /\ fetchCount = 2
  /\ [id |-> 2, table |-> tableName] \in inflight
  /\ \E tm \in timers : tm.period = pollInterval /\ tm.nextFire > now

\* C17: a successful completion is applied whatever table the fetch was
\* issued for: data becomes its payload (rows of the table it was issued
\* for), lastUpdated the current time and error null, also when tableName
\* has changed since the fetch was issued.
C17_StaleTableApplied ==
  [][(completedCount' = completedCount + 1 /\ lastOutcome' = "ok")
       => \E f \in inflight :
            /\ inflight' = inflight \ {f}
            /\ data' = (IF lastOkRecords'[1].isNull THEN <<>> ELSE lastOkRecords'[1].rows)
            /\ \A i \in 1..Len(data') : data'[i].tbl = f.table
            /\ lastUpdated' = <<now>>
            /\ error' = Undefined]_vars

\* mounted, and the rows shown come from a table other than the current one
C17_Witness ==
  /\ phase = "mounted"
  /\ lastOutcome = "ok"
  /\ data /= <<>>
  /\ data[1].tbl /= tableName

\* C18: once loading is false it stays false, and a parameter change leaves
\* data, error, lastUpdated and loading as they were, so the previous rows
\* and error stay rendered until a fetch completes.
C18_LoadingMonotone ==
  [][/\ (~loading => ~loading')
     /\ (phase = "mounted" /\ props' /= props)
          => UNCHANGED <<data, error, lastUpdated, loading>>]_vars

\* parameters changed after a successful load: the list is still rendered
\* while the fetch for the new parameters is in flight
C18_Witness ==
  /\ phase = "mounted"
  /\ paramChanges = 1
  /\ ~loading
  /\ View = "list"
  /\ \E f \in inflight : f.id = fetchCount /\ f.table = tableName
  /\ completedCount = 1

\* C13: completions are applied in the order in which they arrive, not in
\* the order of issue: when a fetch completes that was issued before a fetch
\* that has already completed, data and error are still the ones this
\* completion writes (its payload and null on success; the old data and a
\* set error on failure).
C13_LastToCompleteWins ==
  [][\A f \in inflight :
       (/\ inflight' = inflight \ {f}
        /\ \E i \in 1..fetchCount : i > f.id /\ i \notin {g.id : g \in inflight})
         => IF lastOutcome' = "ok"
            THEN /\ error' = Undefined
                 /\ data' = (IF lastOkRecords'[1].isNull THEN <<>>
                             ELSE lastOkRecords'[1].rows)
                 /\ \A i \in 1..Len(data') : data'[i].tbl = f.table
            ELSE /\ error' /= Undefined
                 /\ data' = data]_vars

\* two fetches overlapped, one per table; the later one (for the current
\* table) completed first and the earlier one last: its rows are shown
C13_Witness ==
  /\ paramChanges = 1
  /\ fetchCount = 2
  /\ inflight = {}
  /\ tableName /= myTableName
  /\ lastOutcome = "ok"
  /\ data = <<Row("a", myTableName)>>
  /\ error = Undefined

\* C12: a failure stops nothing: while the viewer stays mounted with
\* pollInterval > 0 and a period still fits before the end of the modelled
\* clock, the completion of a failed fetch (which leaves isRefreshing false)
\* is followed by the issue of another fetch (the only step that sets
\* isRefreshing); and a fetch that succeeds after a failure clears error and
\* replaces data with its payload.
C12_PollingSurvivesFailure ==
  /\ (/\ phase = "mounted"
      /\ pollInterval > 0
      /\ lastOutcome = "fail"
      /\ ~isRefreshing
      /\ now + pollInterval <= MaxTime)
       ~> (isRefreshing \/ phase /= "mounted")
  /\ [][(everFailed /\ completedCount' = completedCount + 1 /\ lastOutcome' = "ok")
          => /\ error' = Undefined
             /\ data' = (IF lastOkRecords'[1].isNull THEN <<>> ELSE lastOkRecords'[1].rows)]_vars

\* still mounted: a failure completed, a later tick issued the next fetch,
\* and that fetch succeeded with rows
C12_Witness ==
  /\ phase = "mounted"
  /\ paramChanges = 0
  /\ pollInterval > 0
  /\ everFailed
  /\ fetchCount >= 2
  /\ inflight = {}
  /\ lastOutcome = "ok"
  /\ error = Undefined
  /\ data /= <<>>

====
